---- MODULE Spec2Model ----
(***************************************************************************)
(* BT Project Management (src/app.py): the projects table, the three       *)
(* handlers of the "Project Management" module (Add / Update / Delete),    *)
(* the dashboard's derived views, and apply_template.                      *)
(*                                                                         *)
(* One action is one run of the Streamlit script: the script is re-run on  *)
(* every user interaction, renders exactly one module (`option`) and, in   *)
(* that run, at most one st.button returns True.                           *)
(*                                                                         *)
(* Floats (budget, execution_progress, ...) are modelled as integers.      *)
(* The surrogate key `id` is not modelled: a row's identity is its         *)
(* position in `store`, which keeps insertion order.  created_at is the    *)
(* reading of the clock `now` when the row is built and inserted.          *)
(***************************************************************************)
EXTENDS Integers, Sequences, FiniteSets, TLC

VARIABLES
    store,          \* rows of table `projects`, in insertion order
    option,         \* the module rendered by the last run of the script
    update_shown,   \* whether the last run rendered the "Update Project" button
    button,         \* the st.button that returned True in the last run
    target,         \* the project name that handler worked on
    feedback,       \* what the handler displayed: st.success, st.error or nothing
    dash,           \* what dashboard() displayed in the last run
    tmpl,           \* the last call of apply_template and what it returned
    now,            \* the reading of datetime.datetime.utcnow
    sessions        \* the "Add Project" run of each of two concurrent browser sessions

vars == <<store, option, update_shown, button, target, feedback, dash, tmpl,
          now, sessions>>

----------------------------------------------------------------------------
(* Bounds of the model *)

\* budgets entered by the user range over -MaxBudget .. MaxBudget
MaxBudget == 1
\* longest project list handed to the dashboard as a free input
MaxLen == 2
\* execution_progress values handed to the dashboard as a free input
MaxProgress == 100
\* the clock reads 0 .. MaxClock
MaxClock == 1

\* names typed into "Project Name (Unique)"; "" is the empty text input
NameChoices == {"", "Alpha", "Beta"}
\* names of the rows of a free dashboard input, by position
NamePool == <<"Alpha", "Beta", "Gamma", "Delta">>
\* execution_progress values of the rows of a longer free dashboard input
ProgressSamples == {49, 50, 79, 80}

\* a selectbox over an empty option list returns None
NoSelection == "<None>"

----------------------------------------------------------------------------
(* Configuration catalogs *)

project_templates ==
    ("Turnaround Project" :>
        [goals |-> "Increase efficiency by 20%",
         stakeholders |-> "Ops, Finance",
         initial_risks |-> "High initial cost"]) @@
    ("Digitization" :>
        [goals |-> "Automate 50% of manual processes",
         stakeholders |-> "IT, Ops",
         initial_risks |-> "Integration with legacy systems"]) @@
    ("Special Project" :>
        [goals |-> "Launch new product line",
         stakeholders |-> "Marketing, R&D",
         initial_risks |-> "Market acceptance"]) @@
    ("New Technology Research and Implementation" :>
        [goals |-> "Research and implement AI solutions",
         stakeholders |-> "IT, R&D",
         initial_risks |-> "Rapid tech changes"])

project_phases == <<"None", "Scoping", "Validation", "Trial", "Rollout", "Money Step">>

departments ==
    <<"None", "Automation", "Maintenance", "Quality", "QMS", "Stores", "TPD",
      "IE", "HR", "Sustainability", "Project", "MIS", "Business Analytics (BI)",
      "Business transformation", "Finance", "Compliance">>

\* the options of each selectbox the model lets the user pick
TypeChoices == {"Turnaround Project", "Digitization"}
PhaseChoices == {project_phases[1], project_phases[2]}
DepartmentChoices == {departments[1], departments[2]}

----------------------------------------------------------------------------
(* apply_template *)

\* dict.get(key, default)
Get(d, key, default) == IF key \in DOMAIN d THEN d[key] ELSE default

apply_template(template_name) ==
    LET template == Get(project_templates, template_name, <<>>)
    IN  <<Get(template, "goals", ""),
          Get(template, "stakeholders", ""),
          Get(template, "initial_risks", "")>>

----------------------------------------------------------------------------
(* The projects table *)

\* Project(name=..., ...): the columns not passed take their Column default
Project(name, type, phase, department, budget) ==
    [name |-> name, type |-> type, phase |-> phase, department |-> department,
     budget |-> budget, actual_cost |-> 0, roi |-> 0, execution_progress |-> 0,
     risk_level |-> "Low", goals |-> "", stakeholders |-> "", initial_risks |-> "",
     resources |-> "", milestones |-> "", team_size |-> 1, created_at |-> now]

Min(S) == CHOOSE x \in S : \A y \in S : x <= y

\* session.query(Project).filter_by(name=n).first(): the row's position, 0 for None
query_first(s, n) ==
    LET hits == {i \in DOMAIN s : s[i].name = n}
    IN  IF hits = {} THEN 0 ELSE Min(hits)

\* [p.name for p in session.query(Project).all()]
project_names(s) == {s[i].name : i \in DOMAIN s}

\* st.selectbox(label, names): one of the options, None when there is none
selectbox(s) == IF s = <<>> THEN {NoSelection} ELSE project_names(s)

\* session_add on a table whose name column has no unique index
session_add_no_index(s, row) == [store |-> Append(s, row), raised |-> FALSE]

\* session.add(row); session.commit() under name = Column(String, unique=True):
\* the INSERT of a second row with the same name raises IntegrityError
session_add(s, row) ==
    IF row.name \in project_names(s)
    THEN [store |-> s, raised |-> TRUE]
    ELSE [store |-> Append(s, row), raised |-> FALSE]

\* session.delete(row); session.commit()
session_delete(s, i) == SubSeq(s, 1, i - 1) \o SubSeq(s, i + 1, Len(s))

----------------------------------------------------------------------------
(* The handlers of project_management() *)

\* AddProjectOutcome without the check of the name and without the unique index
AddProjectUnchecked(s, name, type, phase, department, budget) ==
    [store |-> Append(s, Project(name, type, phase, department, budget)),
     feedback |-> "success"]

\* AddProjectOutcome writing over the row that already has the name
AddProjectUpsert(s, name, type, phase, department, budget) ==
    IF name = "" THEN [store |-> s, feedback |-> "error"]
    ELSE IF query_first(s, name) # 0
    THEN [store |-> [s EXCEPT ![query_first(s, name)] =
                        Project(name, type, phase, department, budget)],
          feedback |-> "error"]
    ELSE [store |-> Append(s, Project(name, type, phase, department, budget)),
          feedback |-> "success"]

\* AddProjectOutcome checking only that the name is not taken
AddProjectAllowEmpty(s, name, type, phase, department, budget) ==
    IF query_first(s, name) # 0
    THEN [store |-> s, feedback |-> "error"]
    ELSE [store |-> Append(s, Project(name, type, phase, department, budget)),
          feedback |-> "success"]

\* "Add Project": the check of the name, then the INSERT
AddProjectOutcome(s, name, type, phase, department, budget) ==
    IF name = "" \/ query_first(s, name) # 0
    THEN [store |-> s, feedback |-> "error"]
    ELSE LET r == session_add(s, Project(name, type, phase, department, budget))
         IN  IF r.raised
             THEN [store |-> s, feedback |-> "exception"]
             ELSE [store |-> r.store, feedback |-> "success"]

\* UpdateProjectOutcome also stamping created_at, as an onupdate default would
UpdateProjectRestamps(s, name, phase, department, budget) ==
    LET i == query_first(s, name)
    IN  IF i = 0
        THEN [store |-> s, feedback |-> "none"]
        ELSE [store |-> [s EXCEPT ![i].phase = phase,
                                  ![i].department = department,
                                  ![i].budget = budget,
                                  ![i].created_at = now],
              feedback |-> "success"]

\* UpdateProjectOutcome also writing execution_progress
UpdateProjectMarksProgress(s, name, phase, department, budget) ==
    LET i == query_first(s, name)
    IN  IF i = 0
        THEN [store |-> s, feedback |-> "none"]
        ELSE [store |-> [s EXCEPT ![i].phase = phase,
                                  ![i].department = department,
                                  ![i].budget = budget,
                                  ![i].execution_progress = 100],
              feedback |-> "success"]

\* "Update Project": the three assignments and the commit, when the row was found
UpdateProjectOutcome(s, name, phase, department, budget) ==
    LET i == query_first(s, name)
    IN  IF i = 0
        THEN [store |-> s, feedback |-> "none"]
        ELSE [store |-> [s EXCEPT ![i].phase = phase,
                                  ![i].department = department,
                                  ![i].budget = budget],
              feedback |-> "success"]

\* "Delete Project": the row is looked up again and deleted when found
DeleteProjectOutcome(s, name) ==
    LET i == query_first(s, name)
    IN  IF i = 0
        THEN [store |-> s, feedback |-> "none"]
        ELSE [store |-> session_delete(s, i), feedback |-> "success"]

\* load_project_data: the dict put in st.session_state['project_data'], the
\* row's columns as read from the table; the empty dict when there is no row
load_project_data(s, selected_project) ==
    LET i == query_first(s, selected_project)
    IN  IF i = 0 THEN <<>> ELSE s[i]

\* save_project_data: loads the row again, assigns every column but id and
\* created_at from the dict just loaded, and commits.  Nothing calls it.
save_project_data(s, selected_project) ==
    LET i == query_first(s, selected_project)
        project_data == load_project_data(s, selected_project)
    IN  IF i = 0 THEN s
        ELSE [s EXCEPT ![i].name = project_data.name,
                       ![i].type = project_data.type,
                       ![i].phase = project_data.phase,
                       ![i].department = project_data.department,
                       ![i].budget = project_data.budget,
                       ![i].actual_cost = project_data.actual_cost,
                       ![i].roi = project_data.roi,
                       ![i].execution_progress = project_data.execution_progress,
                       ![i].risk_level = project_data.risk_level,
                       ![i].goals = project_data.goals,
                       ![i].stakeholders = project_data.stakeholders,
                       ![i].initial_risks = project_data.initial_risks,
                       ![i].resources = project_data.resources,
                       ![i].milestones = project_data.milestones,
                       ![i].team_size = project_data.team_size]

\* the update form (and its button) is rendered only when the selected row exists
update_form(s) == \E n \in selectbox(s) : query_first(s, n) # 0

----------------------------------------------------------------------------
(* dashboard() *)

\* classify_status with the upper threshold exclusive
classify_status_exclusive(execution_progress) ==
    IF execution_progress > 80 THEN "On Track"
    ELSE IF execution_progress >= 50 THEN "Delayed"
    ELSE "At Risk"

classify_status(execution_progress) ==
    IF execution_progress >= 80 THEN "On Track"
    ELSE IF execution_progress >= 50 THEN "Delayed"
    ELSE "At Risk"

\* group_counts leaving out the last row
group_counts_short(column, keys) ==
    [k \in {keys[i] : i \in 1..(Len(keys) - 1)} |->
        Cardinality({i \in 1..(Len(column) - 1) : keys[i] = k})]

\* df["Project"].groupby(keys).count(): one entry per distinct key, the number
\* of rows of the column under that key
group_counts(column, keys) ==
    [k \in {keys[i] : i \in DOMAIN keys} |->
        Cardinality({i \in DOMAIN column : keys[i] = k})]

NoDash ==
    [rendered |-> FALSE, warning |-> FALSE, Project |-> <<>>, Status |-> <<>>,
     Completion |-> <<>>, type_counts |-> <<>>, department_counts |-> <<>>,
     phase_counts |-> <<>>]

\* the early return on an empty table shows the warning and draws no table or chart
dashboard_view(projects) ==
    IF projects = <<>>
    THEN [NoDash EXCEPT !.rendered = TRUE, !.warning = TRUE]
    ELSE LET names == [i \in DOMAIN projects |-> projects[i].name]
         IN  [rendered |-> TRUE,
              warning |-> FALSE,
              Project |-> names,
              Status |-> [i \in DOMAIN projects |->
                             classify_status(projects[i].execution_progress)],
              Completion |-> [i \in DOMAIN projects |-> projects[i].execution_progress],
              type_counts |->
                  group_counts(names, [i \in DOMAIN projects |-> projects[i].type]),
              department_counts |->
                  group_counts(names, [i \in DOMAIN projects |-> projects[i].department]),
              phase_counts |->
                  group_counts(names, [i \in DOMAIN projects |-> projects[i].phase])]

----------------------------------------------------------------------------
(* The runs of the script *)

\* the two browser sessions of the concurrent "Add Project", each with its own
\* SQLAlchemy session on the one database file
SessionIds == {"s1", "s2"}

NoSessions ==
    [s \in SessionIds |-> [pc |-> "idle", name |-> "", type |-> "", feedback |-> "none"]]

NoTemplate == [called |-> FALSE, name |-> "", raised |-> "none", value |-> <<"", "", "">>]

Init ==
    /\ store = <<>>
    /\ option = "Home"
    /\ update_shown = FALSE
    /\ button = "None"
    /\ target = NoSelection
    /\ feedback = "none"
    /\ dash = NoDash
    /\ tmpl = NoTemplate
    /\ now = 0
    /\ sessions = NoSessions

\* option == "Home": nothing of the table is read or written
Home ==
    /\ option' = "Home"
    /\ update_shown' = FALSE
    /\ button' = "None"
    /\ target' = NoSelection
    /\ feedback' = "none"
    /\ dash' = NoDash
    /\ UNCHANGED <<store, tmpl, now, sessions>>

\* option == "Dashboard"
Dashboard ==
    /\ option' = "Dashboard"
    /\ update_shown' = FALSE
    /\ button' = "None"
    /\ target' = NoSelection
    /\ feedback' = "none"
    /\ dash' = dashboard_view(store)
    /\ UNCHANGED <<store, tmpl, now, sessions>>

\* option == "Project Management", no button pressed
ProjectManagement ==
    /\ option' = "Project Management"
    /\ update_shown' = update_form(store)
    /\ button' = "None"
    /\ target' = NoSelection
    /\ feedback' = "none"
    /\ dash' = NoDash
    /\ UNCHANGED <<store, tmpl, now, sessions>>

\* the run after a press of "Add Project"
AddProject ==
    /\ option = "Project Management"
    /\ \E name \in NameChoices, type \in TypeChoices, phase \in PhaseChoices,
          department \in DepartmentChoices, budget \in 0..MaxBudget :
          LET out == AddProjectOutcome(store, name, type, phase, department, budget)
          IN  /\ store' = out.store
              /\ feedback' = out.feedback
              /\ target' = name
              /\ update_shown' = update_form(out.store)
    /\ button' = "Add Project"
    /\ UNCHANGED <<option, dash, tmpl, now, sessions>>

\* the run after a press of "Update Project"; the button is on the page only
\* if the run before rendered it
UpdateProject ==
    /\ option = "Project Management"
    /\ update_shown
    /\ \E name \in selectbox(store), phase \in PhaseChoices,
          department \in DepartmentChoices, budget \in (-MaxBudget)..MaxBudget :
          LET out == UpdateProjectOutcome(store, name, phase, department, budget)
          IN  /\ store' = out.store
              /\ feedback' = out.feedback
              /\ target' = name
    /\ update_shown' = update_form(store)
    /\ button' = "Update Project"
    /\ UNCHANGED <<option, dash, tmpl, now, sessions>>

\* the run after a press of "Delete Project"; the update form above it was
\* rendered from the table as it was before the delete
DeleteProject ==
    /\ option = "Project Management"
    /\ \E name \in selectbox(store) :
          LET out == DeleteProjectOutcome(store, name)
          IN  /\ store' = out.store
              /\ feedback' = out.feedback
              /\ target' = name
    /\ update_shown' = update_form(store)
    /\ button' = "Delete Project"
    /\ UNCHANGED <<option, dash, tmpl, now, sessions>>

Next ==
    \/ Home
    \/ Dashboard
    \/ ProjectManagement
    \/ AddProject
    \/ UpdateProject
    \/ DeleteProject

Spec == Init /\ [][Next]_vars

----------------------------------------------------------------------------
(* The pure functions on free inputs: any project list for the dashboard,    *)
(* any template name for apply_template                                      *)

\* the rows a free input may hold at position i
InputRows(i, progresses) ==
    {[Project(NamePool[i], type, phase, department, 0)
         EXCEPT !.execution_progress = p] :
        type \in TypeChoices, phase \in PhaseChoices,
        department \in DepartmentChoices, p \in progresses}

RECURSIVE InputLists(_, _)
InputLists(n, progresses) ==
    IF n = 0 THEN {<<>>}
    ELSE {Append(s, r) : s \in InputLists(n - 1, progresses),
                         r \in InputRows(n, progresses)}

SnapshotInputs ==
    UNION {InputLists(n, ProgressSamples) : n \in 0..MaxLen}
        \cup InputLists(1, 0..MaxProgress)

TemplateInputs == DOMAIN project_templates \cup {"Nonexistent"}

\* the rows of the input carry the clock's reading, so it is fixed first
InitFn ==
    /\ now = 0
    /\ store \in SnapshotInputs
    /\ option = "Home"
    /\ update_shown = FALSE
    /\ button = "None"
    /\ target = NoSelection
    /\ feedback = "none"
    /\ dash = NoDash
    /\ tmpl = NoTemplate
    /\ sessions = NoSessions

ApplyTemplate ==
    /\ \E template_name \in TemplateInputs :
          tmpl' = [called |-> TRUE, name |-> template_name, raised |-> "none",
                   value |-> apply_template(template_name)]
    /\ UNCHANGED <<store, option, update_shown, button, target, feedback, dash,
                 now, sessions>>

NextFn ==
    \/ Dashboard
    \/ ApplyTemplate

SpecFn == InitFn /\ [][NextFn]_vars

----------------------------------------------------------------------------
(* The runs of the script while time passes.  Spec and SpecFn leave the     *)
(* clock at its first reading; here it advances between the runs.  To keep  *)
(* the timed state space small, "Add Project" is pressed with the first     *)
(* option of each selectbox and budget 0; "Update Project" keeps its inputs *)

Tick ==
    /\ now < MaxClock
    /\ now' = now + 1
    /\ UNCHANGED <<store, option, update_shown, button, target, feedback, dash,
                   tmpl, sessions>>

AddProjectDefaults ==
    /\ option = "Project Management"
    /\ \E name \in NameChoices :
          LET out == AddProjectOutcome(store, name, "Turnaround Project",
                                       project_phases[1], departments[1], 0)
          IN  /\ store' = out.store
              /\ feedback' = out.feedback
              /\ target' = name
              /\ update_shown' = update_form(out.store)
    /\ button' = "Add Project"
    /\ UNCHANGED <<option, dash, tmpl, now, sessions>>

NextTime ==
    \/ Home
    \/ Dashboard
    \/ ProjectManagement
    \/ AddProjectDefaults
    \/ UpdateProject
    \/ DeleteProject
    \/ Tick

SpecTime == Init /\ [][NextTime]_vars

----------------------------------------------------------------------------
(* Two browser sessions pressing "Add Project" at the same time.  Each has   *)
(* its own SQLAlchemy session on the one SQLite file; the thread of a run    *)
(* can be suspended between its check of the name and its INSERT, and the    *)
(* database runs the INSERTs one at a time.  A run whose commit raises ends  *)
(* with the exception shown; the session is not used again here.             *)

\* the check `not new_project_name or ...filter_by(name=...).first()` of a run
CheckName(s) ==
    /\ sessions[s].pc = "idle"
    /\ \E name \in NameChoices, type \in TypeChoices :
          sessions' = [sessions EXCEPT ![s] =
              IF name = "" \/ query_first(store, name) # 0
              THEN [pc |-> "done", name |-> name, type |-> type, feedback |-> "error"]
              ELSE [pc |-> "checked", name |-> name, type |-> type,
                    feedback |-> "none"]]
    /\ UNCHANGED <<store, option, update_shown, button, target, feedback, dash,
                   tmpl, now>>

\* the session.add and session.commit of a run whose check has passed
CommitInsert(s) ==
    /\ sessions[s].pc = "checked"
    /\ LET r == session_add(store, Project(sessions[s].name, sessions[s].type,
                                           project_phases[1], departments[1], 0))
       IN  /\ store' = r.store
           /\ sessions' = [sessions EXCEPT
                  ![s].pc = "done",
                  ![s].feedback = IF r.raised THEN "exception" ELSE "success"]
    /\ UNCHANGED <<option, update_shown, button, target, feedback, dash, tmpl, now>>

NextRace == \E s \in SessionIds : CheckName(s) \/ CommitInsert(s)

SpecRace == Init /\ [][NextRace]_vars

----------------------------------------------------------------------------
(* Properties *)

\* the number of rows of s named n
NameCount(s, n) == Cardinality({i \in DOMAIN s : s[i].name = n})

\* the row of s named n
RowOf(s, n) == s[query_first(s, n)]

\* s without the rows named n
Without(s, n) == SelectSeq(s, LAMBDA p : p.name # n)

RECURSIVE SumCounts(_)
SumCounts(f) ==
    IF DOMAIN f = {} THEN 0
    ELSE LET k == CHOOSE x \in DOMAIN f : TRUE
         IN  f[k] + SumCounts([x \in DOMAIN f \ {k} |-> f[x]])

\* C1: after any sequence of Add / Update / Delete runs from the empty table no
\* two rows have the same name, and right after a successful Add of name X the
\* table holds exactly one row named X.
UniqueNames ==
    /\ \A i, j \in DOMAIN store : store[i].name = store[j].name => i = j
    /\ (button = "Add Project" /\ feedback = "success") => NameCount(store, target) = 1

UniqueNamesWitness ==
    /\ button = "Add Project"
    /\ feedback = "success"
    /\ Len(store) = 2
    /\ NameCount(store, target) = 1

\* C2: an Add whose name is the name of a row already in the table shows the
\* error and leaves the table as it was: the same rows with the same fields.
DuplicateAddRejected ==
    [][(button' = "Add Project" /\ target' \in project_names(store))
           => (feedback' = "error" /\ store' = store)]_vars

DuplicateAddRejectedWitness ==
    /\ button = "Add Project"
    /\ feedback = "error"
    /\ target \in project_names(store)
    /\ Len(store) = 2

\* C3: an Add with the empty name shows the error and writes nothing, and in
\* every reachable state every row has a non-empty name.
EmptyNameRejected ==
    /\ [](\A i \in DOMAIN store : store[i].name # "")
    /\ [][(button' = "Add Project" /\ target' = "")
             => (feedback' = "error" /\ store' = store)]_vars

EmptyNameRejectedWitness ==
    /\ button = "Add Project"
    /\ target = ""
    /\ feedback = "error"
    /\ store # <<>>

\* C4: every successful Add persists a row with actual_cost = 0, roi = 0,
\* execution_progress = 0, risk_level = Low and with goals, stakeholders and
\* initial_risks equal to the triple apply_template returns for the row's type.
AddAppliesTemplate ==
    (button = "Add Project" /\ feedback = "success") =>
        LET p == RowOf(store, target)
        IN  /\ p.actual_cost = 0
            /\ p.roi = 0
            /\ p.execution_progress = 0
            /\ p.risk_level = "Low"
            /\ <<p.goals, p.stakeholders, p.initial_risks>> = apply_template(p.type)

\* C5: an Update whose target is not the name of a row shows an error and
\* leaves the table as it was.
UpdateMissingFails ==
    [][(button' = "Update Project" /\ target' \notin project_names(store))
           => (feedback' = "error" /\ store' = store)]_vars

\* C6: in every reachable state every row has budget >= 0.
BudgetNonNegative == \A i \in DOMAIN store : store[i].budget >= 0

\* C7: a Delete of a stored name removes exactly that row and leaves every
\* other row as it was; a Delete of a name that is not stored shows an error
\* and leaves the table as it was.
DeleteRemovesOrFails ==
    [][button' = "Delete Project" =>
           IF target' \in project_names(store)
           THEN target' \notin project_names(store') /\ store' = Without(store, target')
           ELSE feedback' = "error" /\ store' = store]_vars

\* C8: apply_template returns the catalog's triple for every name of the
\* catalog and fails with UnknownTemplateError for every other name.
ApplyTemplateRejectsUnknown ==
    tmpl.called =>
        IF tmpl.name \in DOMAIN project_templates
        THEN /\ tmpl.raised = "none"
             /\ tmpl.value = <<project_templates[tmpl.name].goals,
                               project_templates[tmpl.name].stakeholders,
                               project_templates[tmpl.name].initial_risks>>
        ELSE tmpl.raised = "UnknownTemplateError"

\* C9: for every execution_progress p in 0..100 the dashboard's status is
\* On Track exactly when p >= 80, Delayed exactly when 50 <= p < 80 and At Risk
\* exactly when p < 50, so every p falls in exactly one bucket.
StatusBuckets ==
    dash.rendered =>
        /\ DOMAIN dash.Status = DOMAIN store
        /\ \A i \in DOMAIN store :
              LET p == store[i].execution_progress
                  status == dash.Status[i]
              IN  /\ status \in {"On Track", "Delayed", "At Risk"}
                  /\ status = "On Track" <=> p >= 80
                  /\ status = "Delayed" <=> (50 <= p /\ p < 80)
                  /\ status = "At Risk" <=> p < 50

StatusBucketsWitness ==
    /\ dash.rendered
    /\ Len(store) = 2
    /\ store[1].execution_progress = 80 /\ dash.Status[1] = "On Track"
    /\ store[2].execution_progress = 79 /\ dash.Status[2] = "Delayed"

\* C10: for any project list and each of the keys type, department and phase
\* the dashboard's counts have one entry per distinct key value of the list
\* and sum to the number of projects; over the empty list they are empty.
GroupCountsPartition ==
    dash.rendered =>
        /\ DOMAIN dash.type_counts = {store[i].type : i \in DOMAIN store}
        /\ DOMAIN dash.department_counts = {store[i].department : i \in DOMAIN store}
        /\ DOMAIN dash.phase_counts = {store[i].phase : i \in DOMAIN store}
        /\ SumCounts(dash.type_counts) = Len(store)
        /\ SumCounts(dash.department_counts) = Len(store)
        /\ SumCounts(dash.phase_counts) = Len(store)
        /\ \A k \in DOMAIN dash.type_counts : dash.type_counts[k] >= 1
        /\ \A k \in DOMAIN dash.department_counts : dash.department_counts[k] >= 1
        /\ \A k \in DOMAIN dash.phase_counts : dash.phase_counts[k] >= 1

GroupCountsPartitionWitness ==
    /\ dash.rendered
    /\ Len(store) = 2
    /\ Cardinality(DOMAIN dash.type_counts) = 2
    /\ Cardinality(DOMAIN dash.department_counts) = 1
    /\ SumCounts(dash.department_counts) = 2

\* C13: in every state reachable through Add / Update / Delete every row has
\* execution_progress = 0, and the dashboard shows every stored project as
\* At Risk, never as On Track or Delayed.
ProgressStaysZero ==
    /\ \A i \in DOMAIN store : store[i].execution_progress = 0
    /\ dash.rendered =>
          /\ DOMAIN dash.Status = DOMAIN store
          /\ \A i \in DOMAIN store : dash.Status[i] = "At Risk"

\* the dashboard of two projects, one of them updated since it was added
ProgressStaysZeroWitness ==
    /\ dash.rendered
    /\ Len(store) = 2
    /\ \E i \in DOMAIN store : store[i].budget < 0
    /\ \A i \in DOMAIN store : dash.Status[i] = "At Risk"

\* C12: a successful Update leaves the name and created_at of its project
\* and every other row as they were, and as long as a row stays in the table
\* its created_at is the value set when it was added.  (save_project_data,
\* were it called on any stored project, would leave the table as it is.)
UpdateKeepsIdentity ==
    [][/\ (button' = "Update Project" /\ feedback' = "success") =>
             /\ Len(store') = Len(store)
             /\ \A i \in DOMAIN store :
                   /\ store'[i].name = store[i].name
                   /\ store'[i].created_at = store[i].created_at
                   /\ store[i].name # target' => store'[i] = store[i]
       /\ \A n \in project_names(store) \cap project_names(store') :
             RowOf(store', n).created_at = RowOf(store, n).created_at
       /\ \A n \in selectbox(store') : save_project_data(store', n) = store'
      ]_vars

\* an Update, after the clock has advanced, of the older of two projects
UpdateKeepsIdentityWitness ==
    /\ button = "Update Project"
    /\ feedback = "success"
    /\ Len(store) = 2
    /\ store[1].created_at < store[2].created_at
    /\ target = store[1].name
    /\ store[1].created_at < now
    /\ store[1].budget < 0

\* C11: when two sessions run Add with the same name and both checks pass
\* before either commit, at most one row of that name ends up in the table:
\* the unique index rejects the second INSERT.
RaceKeepsNameUnique ==
    /\ \A n \in NameChoices : NameCount(store, n) <= 1
    /\ \A s1, s2 \in SessionIds :
          (/\ s1 # s2
           /\ sessions[s1].name = sessions[s2].name
           /\ sessions[s1].feedback \in {"success", "exception"}
           /\ sessions[s2].feedback \in {"success", "exception"})
          => sessions[s1].feedback # sessions[s2].feedback

\* both checks passed, then one INSERT was committed and the other rejected
RaceKeepsNameUniqueWitness ==
    /\ sessions["s1"].name = sessions["s2"].name
    /\ sessions["s1"].feedback = "exception"
    /\ sessions["s2"].feedback = "success"
    /\ NameCount(store, sessions["s1"].name) = 1

====
